---------------------------- MODULE Spec2Model ----------------------------
(***************************************************************************)
(* ALX Polly: the poll server actions (app/lib/actions/poll-actions.ts)    *)
(* over the external backend (tables polls and votes) and the external     *)
(* auth collaborator.                                                      *)
(*                                                                         *)
(* Strings of user input (question, option) are sequences of one-character *)
(* strings, so that trimming and the two regular expressions of            *)
(* sanitizeString are computed character by character.  Messages returned  *)
(* by the handlers are TLA+ strings.  A value that may be null/undefined   *)
(* in the source (user, error, user_metadata, role) is a sequence of       *)
(* length 0 (null) or 1 (the value).                                       *)
(***************************************************************************)
EXTENDS Integers, Sequences, FiniteSets, TLC

VARIABLES
    polls,    \* rows of the backend table "polls"
    votes,    \* rows of the backend table "votes", in insertion order
    nextId,   \* the backend's next poll identifier / creation timestamp
    last,     \* the most recent handler call: arguments, steps taken, result
    san,      \* a pending or finished application of sanitizeString
    calls,    \* handler calls running concurrently, each at one of its awaits
    form      \* the state of a PollCreateForm or EditPollForm component

vars == <<polls, votes, nextId, last, san, calls, form>>

-----------------------------------------------------------------------------
(* Characters and strings *)

Min(S) == CHOOSE x \in S : \A y \in S : x <= y

Range(seq) == {seq[i] : i \in 1..Len(seq)}

\* String.prototype.trim strips white space and line terminators.
IsWhitespace(c) == c \in {" ", "\t", "\n", "\r"}

\* "." in a regular expression without the s flag matches no line terminator.
IsLineTerminator(c) == c \in {"\n", "\r"}

\* Case folding of the i flag, for the letters of "script".
Lower(c) ==
    CASE c = "S" -> "s"
      [] c = "C" -> "c"
      [] c = "R" -> "r"
      [] c = "I" -> "i"
      [] c = "P" -> "p"
      [] c = "T" -> "t"
      [] OTHER -> c

RECURSIVE Concat(_)
Concat(ss) == IF ss = <<>> THEN <<>> ELSE Head(ss) \o Concat(Tail(ss))

Repeat(c, n) == [i \in 1..n |-> c]

\* input.trim()
trim(s) ==
    IF \A i \in 1..Len(s) : IsWhitespace(s[i]) THEN <<>>
    ELSE LET first == CHOOSE i \in 1..Len(s) :
                          /\ ~IsWhitespace(s[i])
                          /\ \A j \in 1..(i - 1) : IsWhitespace(s[j])
             final == CHOOSE i \in 1..Len(s) :
                          /\ ~IsWhitespace(s[i])
                          /\ \A j \in (i + 1)..Len(s) : IsWhitespace(s[j])
         IN  SubSeq(s, first, final)

\* The literal lit occurs in s at position i, ignoring case.
MatchesAt(s, i, lit) ==
    /\ i >= 1
    /\ i + Len(lit) - 1 <= Len(s)
    /\ \A k \in 1..Len(lit) : Lower(s[i + k - 1]) = lit[k]

ScriptOpen  == <<"<", "s", "c", "r", "i", "p", "t">>
ScriptClose == <<"<", "/", "s", "c", "r", "i", "p", "t", ">">>

\* The last index of the match of /<script[^>]*>.*?<\/script>/i that starts
\* at i, or 0 when the expression does not match there.  [^>]* stops at the
\* first ">" (it matches line terminators); .*? stops at the first closing
\* tag and fails when a line terminator comes before it.
ScriptMatchEnd(s, i) ==
    IF ~MatchesAt(s, i, ScriptOpen) THEN 0
    ELSE LET gts == {j \in (i + Len(ScriptOpen))..Len(s) : s[j] = ">"}
         IN  IF gts = {} THEN 0
             ELSE LET gt == Min(gts)
                      closes == {k \in (gt + 1)..Len(s) :
                                    /\ MatchesAt(s, k, ScriptClose)
                                    /\ \A m \in (gt + 1)..(k - 1) :
                                           ~IsLineTerminator(s[m])}
                  IN  IF closes = {} THEN 0
                      ELSE Min(closes) + Len(ScriptClose) - 1

\* .replace(/<script[^>]*>.*?<\/script>/gi, ''), scanning from index i.
RECURSIVE RemoveScriptsFrom(_, _)
RemoveScriptsFrom(s, i) ==
    LET starts == {j \in i..Len(s) : ScriptMatchEnd(s, j) > 0}
    IN  IF starts = {} THEN SubSeq(s, i, Len(s))
        ELSE LET j == Min(starts)
             IN  SubSeq(s, i, j - 1) \o RemoveScriptsFrom(s, ScriptMatchEnd(s, j) + 1)

RemoveScripts(s) == RemoveScriptsFrom(s, 1)

\* The tag removal with /<[^<>]*>/g in place of /<[^>]*>/g: a match starts
\* at a "<" whose next angle bracket is a ">".
RECURSIVE RemoveTagsFrom_InnermostOnly(_, _)
RemoveTagsFrom_InnermostOnly(s, i) ==
    LET Closes(j) == {k \in (j + 1)..Len(s) : s[k] \in {"<", ">"}}
        starts == {j \in i..Len(s) :
                      /\ s[j] = "<"
                      /\ Closes(j) # {}
                      /\ s[Min(Closes(j))] = ">"}
    IN  IF starts = {} THEN SubSeq(s, i, Len(s))
        ELSE LET j == Min(starts)
             IN  SubSeq(s, i, j - 1)
                     \o RemoveTagsFrom_InnermostOnly(s, Min(Closes(j)) + 1)

\* .replace(/<[^>]*>/g, ''), scanning from index i: a match starts at a "<"
\* that has a ">" somewhere after it and ends at the first such ">".
RECURSIVE RemoveTagsFrom(_, _)
RemoveTagsFrom(s, i) ==
    LET starts == {j \in i..Len(s) :
                      /\ s[j] = "<"
                      /\ \E k \in (j + 1)..Len(s) : s[k] = ">"}
    IN  IF starts = {} THEN SubSeq(s, i, Len(s))
        ELSE LET j  == Min(starts)
                 gt == Min({k \in (j + 1)..Len(s) : s[k] = ">"})
             IN  SubSeq(s, i, j - 1) \o RemoveTagsFrom(s, gt + 1)

RemoveTags(s) == RemoveTagsFrom(s, 1)

sanitizeString(input) == RemoveTags(RemoveScripts(trim(input)))

-----------------------------------------------------------------------------
(* Validation *)

MaxQuestionLength == 500
MaxOptionLength   == 200
MinOptions        == 2
MaxOptions        == 10

\* JavaScript's !s for a string: true of the empty string (and of null, which
\* formData.get returns for a missing field and which is modelled as <<>>).
Falsy(s) == s = <<>>

OptionMessage(index, text) == "Option " \o ToString(index) \o text

QuestionErrors(question) ==
    IF Falsy(question) \/ Len(trim(question)) = 0
        THEN <<"Question is required">>
    ELSE IF Len(trim(question)) > MaxQuestionLength
        THEN <<"Question must be less than 500 characters">>
    ELSE <<>>

\* The count check with its lower limit off by one.
CountErrors_OffByOne(options) ==
    IF Len(options) < MinOptions - 1
        THEN <<"At least 2 options are required">>
    ELSE IF Len(options) > MaxOptions
        THEN <<"Maximum 10 options allowed">>
    ELSE <<>>

CountErrors(options) ==
    IF Len(options) < MinOptions
        THEN <<"At least 2 options are required">>
    ELSE IF Len(options) > MaxOptions
        THEN <<"Maximum 10 options allowed">>
    ELSE <<>>

\* The option check with >= in place of >.
OptionErrors_OffByOne(option, index) ==
    IF Falsy(option) \/ Len(trim(option)) = 0
        THEN <<OptionMessage(index, " cannot be empty")>>
    ELSE IF Len(trim(option)) >= MaxOptionLength
        THEN <<OptionMessage(index, " must be less than 200 characters")>>
    ELSE <<>>

OptionErrors(option, index) ==
    IF Falsy(option) \/ Len(trim(option)) = 0
        THEN <<OptionMessage(index, " cannot be empty")>>
    ELSE IF Len(trim(option)) > MaxOptionLength
        THEN <<OptionMessage(index, " must be less than 200 characters")>>
    ELSE <<>>

\* options.forEach((option, index) => ...), from position i on.
RECURSIVE EachOptionErrors(_, _)
EachOptionErrors(options, i) ==
    IF i > Len(options) THEN <<>>
    ELSE OptionErrors(options[i], i) \o EachOptionErrors(options, i + 1)

validatePollInput(question, options) ==
    QuestionErrors(question) \o CountErrors(options) \o EachOptionErrors(options, 1)

\* errors.join(', ')
RECURSIVE join(_)
join(errors) ==
    IF Len(errors) = 1 THEN errors[1]
    ELSE errors[1] \o ", " \o join(Tail(errors))

\* A form entry is a string or a File (FormDataEntryValue); the handlers cast
\* what formData.get and formData.getAll return to string without a test.
\* A File is truthy and has no trim method.
File == <<"[object File]">>

\* question.trim() and option.trim() raise a TypeError on a File.  The checks
\* of validatePollInput all run (none returns early), so one File among the
\* question and the options makes validatePollInput raise.
validatePollInputThrows(question, options) ==
    \/ question = File
    \/ \E i \in 1..Len(options) : options[i] = File

\* The filter discarding the entries that are blank once trimmed as well.
FilterBoolean_DropsBlank(options) ==
    SelectSeq(options, LAMBDA o : ~Falsy(o) /\ Len(trim(o)) > 0)

\* formData.getAll("options").filter(Boolean)
FilterBoolean(options) == SelectSeq(options, LAMBDA o : ~Falsy(o))

Map(f(_), seq) == [i \in 1..Len(seq) |-> f(seq[i])]

-----------------------------------------------------------------------------
(* The collaborators: auth session and backend *)

Null == <<>>
Some(v) == <<v>>
ValueOf(opt) == opt[1]

\* Users of the auth provider: user_metadata may be absent, may lack a role,
\* or may carry any role string.
Alice == [id |-> "alice", user_metadata |-> Null]
Bob   == [id |-> "bob",   user_metadata |-> Some([role |-> Null])]
Carol == [id |-> "carol", user_metadata |-> Some([role |-> Some("Admin")])]
Root  == [id |-> "root",  user_metadata |-> Some([role |-> Some("admin")])]
Users == {Alice, Bob, Carol, Root}

\* Outcomes of supabase.auth.getUser(): { data: { user }, error }.
Anonymous   == [user |-> Null, error |-> Null]
AuthFailure == [user |-> Null, error |-> Some([message |-> "Auth session missing!"])]
LoggedIn(u) == [user |-> Some(u), error |-> Null]
AuthOutcomes == {Anonymous, AuthFailure} \cup {LoggedIn(u) : u \in Users}

\* Outcomes of one backend statement: { error }.  A statement that reports an
\* error changes no row.
BackendOk      == Null
BackendFailure == Some([message |-> "backend unavailable"])
BackendOutcomes == {BackendOk, BackendFailure}

\* A role check that ignores the case of the role string.
isAdmin_IgnoreCase(user) ==
    /\ user.user_metadata # Null
    /\ ValueOf(user.user_metadata).role \in {Some("admin"), Some("Admin")}

\* user.user_metadata?.role === 'admin'
isAdmin(user) ==
    /\ user.user_metadata # Null
    /\ ValueOf(user.user_metadata).role = Some("admin")

\* The filter without its ownership condition.
OwnedRowFilter_IdOnly(row, id, user) == row.id = id

\* .eq("id", id).eq("user_id", user.id) of deletePoll and updatePoll
OwnedRowFilter(row, id, user) == row.id = id /\ row.user_id = user.id

\* .eq("id", id) of adminDeletePoll and getPollById
IdFilter(row, id) == row.id = id

\* The backend statements of the poll handlers, each one statement executed
\* by the backend on the table as it is then.
\* The update keyed by the poll identifier alone.
UpdateOwned_IdOnly(table, pollId, user, question, options) ==
    {IF IdFilter(r, pollId)
         THEN [r EXCEPT !.question = question, !.options = options]
         ELSE r
        : r \in table}

\* .update({ question, options }).eq("id", pollId).eq("user_id", user.id)
UpdateOwned(table, pollId, user, question, options) ==
    {IF OwnedRowFilter(r, pollId, user)
         THEN [r EXCEPT !.question = question, !.options = options]
         ELSE r
        : r \in table}

\* .delete().eq("id", id).eq("user_id", user.id)
DeleteOwned(table, id, user) == {r \in table : ~OwnedRowFilter(r, id, user)}

\* .delete().eq("id", id)
DeleteById(table, id) == {r \in table : ~IdFilter(r, id)}

\* .order("created_at", { ascending: false })
RECURSIVE OrderDescending(_)
OrderDescending(rows) ==
    IF rows = {} THEN <<>>
    ELSE LET newest == CHOOSE r \in rows : \A q \in rows : q.created_at <= r.created_at
         IN  <<newest>> \o OrderDescending(rows \ {newest})

-----------------------------------------------------------------------------
(* The handlers.  Each ...Result operator is the handler's body: from the  *)
(* call's arguments, the outcome of getUser and the outcome of the backend *)
(* statement it gives the returned error, the steps performed in order,    *)
(* and the tables after the call.                                          *)

Result(error, steps, newPolls, newVotes, data) ==
    [error |-> error, steps |-> steps, polls |-> newPolls, votes |-> newVotes,
     data |-> data, validation |-> [options |-> <<>>, errors |-> <<>>],
     thrown |-> FALSE]

\* The handler raised an exception during its last step: it returns nothing
\* and the tables are as they were.
Throw(steps) ==
    [Result(Null, steps, polls, votes, <<>>) EXCEPT !.thrown = TRUE]

\* The handler validated rawOptions and got validationErrors.
Validated(res, rawOptions, validationErrors) ==
    [res EXCEPT !.validation = [options |-> rawOptions, errors |-> validationErrors]]

\* createPoll resolving the caller's identity before it validates the form.
createPollResult_AuthFirst(formData, auth, be) ==
    LET rawQuestion == formData.question
        rawOptions  == FilterBoolean(formData.options)
        validationErrors == validatePollInput(rawQuestion, rawOptions)
        question == sanitizeString(rawQuestion)
        options  == Map(sanitizeString, rawOptions)
        row == [id |-> nextId, user_id |-> ValueOf(auth.user).id,
                question |-> question, options |-> options, created_at |-> nextId]
    IN  IF auth.error # Null THEN
            Result(Some(ValueOf(auth.error).message), <<"getUser">>, polls, votes, <<>>)
        ELSE IF auth.user = Null THEN
            Result(Some("You must be logged in to create a poll."), <<"getUser">>,
                   polls, votes, <<>>)
        ELSE IF validatePollInputThrows(rawQuestion, rawOptions) THEN
            Throw(<<"getUser", "validate">>)
        ELSE Validated(
            IF Len(validationErrors) > 0 THEN
                Result(Some(join(validationErrors)), <<"getUser", "validate">>,
                       polls, votes, <<>>)
            ELSE IF be # Null THEN
                Result(Some(ValueOf(be).message),
                       <<"getUser", "validate", "sanitize", "insert">>, polls, votes, <<>>)
            ELSE
                Result(Null,
                       <<"getUser", "validate", "sanitize", "insert", "revalidatePath">>,
                       polls \cup {row}, votes, <<>>),
            rawOptions, validationErrors)

createPollResult(formData, auth, be) ==
    LET rawQuestion == formData.question
        rawOptions  == FilterBoolean(formData.options)
        validationErrors == validatePollInput(rawQuestion, rawOptions)
        question == sanitizeString(rawQuestion)
        options  == Map(sanitizeString, rawOptions)
        row == [id |-> nextId, user_id |-> ValueOf(auth.user).id,
                question |-> question, options |-> options, created_at |-> nextId]
    IN  IF validatePollInputThrows(rawQuestion, rawOptions) THEN
            Throw(<<"validate">>)
        ELSE Validated(
        IF Len(validationErrors) > 0 THEN
            Result(Some(join(validationErrors)), <<"validate">>, polls, votes, <<>>)
        ELSE IF auth.error # Null THEN
            Result(Some(ValueOf(auth.error).message),
                   <<"validate", "sanitize", "getUser">>, polls, votes, <<>>)
        ELSE IF auth.user = Null THEN
            Result(Some("You must be logged in to create a poll."),
                   <<"validate", "sanitize", "getUser">>, polls, votes, <<>>)
        ELSE IF be # Null THEN
            Result(Some(ValueOf(be).message),
                   <<"validate", "sanitize", "getUser", "insert">>, polls, votes, <<>>)
        ELSE
            Result(Null,
                   <<"validate", "sanitize", "getUser", "insert", "revalidatePath">>,
                   polls \cup {row}, votes, <<>>),
        rawOptions, validationErrors)

\* adminDeletePoll calling revalidatePath before it looks at the error of the
\* delete.
adminDeletePollResult_RevalidateFirst(id, auth, be) ==
    IF auth.error # Null THEN
        Result(Some(ValueOf(auth.error).message), <<"getUser">>, polls, votes, <<>>)
    ELSE IF auth.user = Null THEN
        Result(Some("You must be logged in to delete a poll."), <<"getUser">>,
               polls, votes, <<>>)
    ELSE IF ~isAdmin(ValueOf(auth.user)) THEN
        Result(Some("Admin privileges required to delete any poll."),
               <<"getUser", "isAdmin">>, polls, votes, <<>>)
    ELSE IF be # Null THEN
        Result(Some(ValueOf(be).message),
               <<"getUser", "isAdmin", "delete", "revalidatePath">>, polls, votes, <<>>)
    ELSE
        Result(Null, <<"getUser", "isAdmin", "delete", "revalidatePath">>,
               DeleteById(polls, id), votes, <<>>)

adminDeletePollResult(id, auth, be) ==
    IF auth.error # Null THEN
        Result(Some(ValueOf(auth.error).message), <<"getUser">>, polls, votes, <<>>)
    ELSE IF auth.user = Null THEN
        Result(Some("You must be logged in to delete a poll."), <<"getUser">>,
               polls, votes, <<>>)
    ELSE IF ~isAdmin(ValueOf(auth.user)) THEN
        Result(Some("Admin privileges required to delete any poll."),
               <<"getUser", "isAdmin">>, polls, votes, <<>>)
    ELSE IF be # Null THEN
        Result(Some(ValueOf(be).message), <<"getUser", "isAdmin", "delete">>,
               polls, votes, <<>>)
    ELSE
        Result(Null, <<"getUser", "isAdmin", "delete", "revalidatePath">>,
               DeleteById(polls, id), votes, <<>>)

\* getUserPolls selecting without its .eq("user_id", user.id) filter.
getUserPollsResult_AllPolls(auth, be) ==
    IF auth.user = Null THEN
        Result(Some("Not authenticated"), <<"getUser">>, polls, votes, <<>>)
    ELSE IF be # Null THEN
        Result(Some(ValueOf(be).message), <<"getUser", "select">>, polls, votes, <<>>)
    ELSE
        Result(Null, <<"getUser", "select">>, polls, votes, OrderDescending(polls))

getUserPollsResult(auth, be) ==
    IF auth.user = Null THEN
        Result(Some("Not authenticated"), <<"getUser">>, polls, votes, <<>>)
    ELSE IF be # Null THEN
        Result(Some(ValueOf(be).message), <<"getUser", "select">>, polls, votes, <<>>)
    ELSE
        Result(Null, <<"getUser", "select">>, polls, votes,
               OrderDescending({r \in polls : r.user_id = ValueOf(auth.user).id}))

\* getPollById requiring a user and selecting among the caller's polls, the
\* way getUserPolls does.
getPollByIdResult_OwnersOnly(id, auth, be) ==
    LET rows == {r \in polls : auth.user # Null /\ OwnedRowFilter(r, id, ValueOf(auth.user))}
    IN  IF auth.user = Null THEN
            Result(Some("Not authenticated"), <<"getUser">>, polls, votes, <<>>)
        ELSE IF be # Null THEN
            Result(Some(ValueOf(be).message), <<"getUser", "select">>, polls, votes, <<>>)
        ELSE IF Cardinality(rows) # 1 THEN
            Result(Some("JSON object requested, multiple (or no) rows returned"),
                   <<"getUser", "select">>, polls, votes, <<>>)
        ELSE Result(Null, <<"getUser", "select">>, polls, votes, OrderDescending(rows))

\* getPollById never asks who is calling: auth, the session of the request,
\* is not read.  .single() reports an error unless exactly one row matches.
getPollByIdResult(id, auth, be) ==
    LET rows == {r \in polls : IdFilter(r, id)}
    IN  IF be # Null THEN
            Result(Some(ValueOf(be).message), <<"select">>, polls, votes, <<>>)
        ELSE IF Cardinality(rows) # 1 THEN
            Result(Some("JSON object requested, multiple (or no) rows returned"),
                   <<"select">>, polls, votes, <<>>)
        ELSE Result(Null, <<"select">>, polls, votes, OrderDescending(rows))

\* submitVote with the login requirement its comment keeps ready.
submitVoteResult_LoginRequired(pollId, optionIndex, auth, be) ==
    LET row == [poll_id |-> pollId,
                user_id |-> IF auth.user = Null THEN Null
                            ELSE Some(ValueOf(auth.user).id),
                option_index |-> optionIndex]
    IN  IF auth.user = Null THEN
            Result(Some("You must be logged in to vote."), <<"getUser">>, polls, votes, <<>>)
        ELSE IF be # Null THEN
            Result(Some(ValueOf(be).message), <<"getUser", "insert">>, polls, votes, <<>>)
        ELSE Result(Null, <<"getUser", "insert">>, polls, Append(votes, row), <<>>)

submitVoteResult(pollId, optionIndex, auth, be) ==
    LET row == [poll_id |-> pollId,
                user_id |-> IF auth.user = Null THEN Null
                            ELSE Some(ValueOf(auth.user).id),
                option_index |-> optionIndex]
    IN  IF be # Null THEN
            Result(Some(ValueOf(be).message), <<"getUser", "insert">>, polls, votes, <<>>)
        ELSE Result(Null, <<"getUser", "insert">>, polls, Append(votes, row), <<>>)

\* deletePoll deleting the votes of the polls it deletes as well.
deletePollResult_CascadeVotes(id, auth, be) ==
    IF auth.error # Null THEN
        Result(Some(ValueOf(auth.error).message), <<"getUser">>, polls, votes, <<>>)
    ELSE IF auth.user = Null THEN
        Result(Some("You must be logged in to delete a poll."), <<"getUser">>,
               polls, votes, <<>>)
    ELSE IF be # Null THEN
        Result(Some(ValueOf(be).message), <<"getUser", "delete">>, polls, votes, <<>>)
    ELSE
        Result(Null, <<"getUser", "delete", "revalidatePath">>,
               DeleteOwned(polls, id, ValueOf(auth.user)),
               SelectSeq(votes, LAMBDA v :
                   \E r \in DeleteOwned(polls, id, ValueOf(auth.user)) : r.id = v.poll_id),
               <<>>)

\* deletePoll without its "if (!user)" return, the filter reading user?.id.
deletePollResult_NoLoginCheck(id, auth, be) ==
    IF auth.error # Null THEN
        Result(Some(ValueOf(auth.error).message), <<"getUser">>, polls, votes, <<>>)
    ELSE IF be # Null THEN
        Result(Some(ValueOf(be).message), <<"getUser", "delete">>, polls, votes, <<>>)
    ELSE
        Result(Null, <<"getUser", "delete", "revalidatePath">>,
               {r \in polls : ~( /\ auth.user # Null
                                 /\ OwnedRowFilter(r, id, ValueOf(auth.user)) )},
               votes, <<>>)

\* deletePoll reporting an error when its statement matched no row.
deletePollResult_ReportsNoRow(id, auth, be) ==
    IF auth.error # Null THEN
        Result(Some(ValueOf(auth.error).message), <<"getUser">>, polls, votes, <<>>)
    ELSE IF auth.user = Null THEN
        Result(Some("You must be logged in to delete a poll."), <<"getUser">>,
               polls, votes, <<>>)
    ELSE IF be # Null THEN
        Result(Some(ValueOf(be).message), <<"getUser", "delete">>, polls, votes, <<>>)
    ELSE IF DeleteOwned(polls, id, ValueOf(auth.user)) = polls THEN
        Result(Some("Poll not found."), <<"getUser", "delete">>, polls, votes, <<>>)
    ELSE
        Result(Null, <<"getUser", "delete", "revalidatePath">>,
               DeleteOwned(polls, id, ValueOf(auth.user)), votes, <<>>)

deletePollResult(id, auth, be) ==
    IF auth.error # Null THEN
        Result(Some(ValueOf(auth.error).message), <<"getUser">>, polls, votes, <<>>)
    ELSE IF auth.user = Null THEN
        Result(Some("You must be logged in to delete a poll."), <<"getUser">>,
               polls, votes, <<>>)
    ELSE IF be # Null THEN
        Result(Some(ValueOf(be).message), <<"getUser", "delete">>, polls, votes, <<>>)
    ELSE
        Result(Null, <<"getUser", "delete", "revalidatePath">>,
               DeleteOwned(polls, id, ValueOf(auth.user)), votes, <<>>)

\* updatePoll with the update keyed by the poll identifier alone.
updatePollResult_IdOnly(pollId, formData, auth, be) ==
    LET rawQuestion == formData.question
        rawOptions  == FilterBoolean(formData.options)
        validationErrors == validatePollInput(rawQuestion, rawOptions)
        question == sanitizeString(rawQuestion)
        options  == Map(sanitizeString, rawOptions)
        Updated(r) == [r EXCEPT !.question = question, !.options = options]
    IN  IF validatePollInputThrows(rawQuestion, rawOptions) THEN
            Throw(<<"validate">>)
        ELSE Validated(
        IF Len(validationErrors) > 0 THEN
            Result(Some(join(validationErrors)), <<"validate">>, polls, votes, <<>>)
        ELSE IF auth.error # Null THEN
            Result(Some(ValueOf(auth.error).message),
                   <<"validate", "sanitize", "getUser">>, polls, votes, <<>>)
        ELSE IF auth.user = Null THEN
            Result(Some("You must be logged in to update a poll."),
                   <<"validate", "sanitize", "getUser">>, polls, votes, <<>>)
        ELSE IF be # Null THEN
            Result(Some(ValueOf(be).message),
                   <<"validate", "sanitize", "getUser", "update">>, polls, votes, <<>>)
        ELSE
            Result(Null, <<"validate", "sanitize", "getUser", "update">>,
                   {IF IdFilter(r, pollId) THEN Updated(r) ELSE r : r \in polls},
                   votes, <<>>),
        rawOptions, validationErrors)

updatePollResult(pollId, formData, auth, be) ==
    LET rawQuestion == formData.question
        rawOptions  == FilterBoolean(formData.options)
        validationErrors == validatePollInput(rawQuestion, rawOptions)
        question == sanitizeString(rawQuestion)
        options  == Map(sanitizeString, rawOptions)
    IN  IF validatePollInputThrows(rawQuestion, rawOptions) THEN
            Throw(<<"validate">>)
        ELSE Validated(
        IF Len(validationErrors) > 0 THEN
            Result(Some(join(validationErrors)), <<"validate">>, polls, votes, <<>>)
        ELSE IF auth.error # Null THEN
            Result(Some(ValueOf(auth.error).message),
                   <<"validate", "sanitize", "getUser">>, polls, votes, <<>>)
        ELSE IF auth.user = Null THEN
            Result(Some("You must be logged in to update a poll."),
                   <<"validate", "sanitize", "getUser">>, polls, votes, <<>>)
        ELSE IF be # Null THEN
            Result(Some(ValueOf(be).message),
                   <<"validate", "sanitize", "getUser", "update">>, polls, votes, <<>>)
        ELSE
            Result(Null, <<"validate", "sanitize", "getUser", "update">>,
                   UpdateOwned(polls, pollId, ValueOf(auth.user), question, options),
                   votes, <<>>),
        rawOptions, validationErrors)

-----------------------------------------------------------------------------
(* State and actions *)

MaxRows == 2    \* rows (polls and votes together) the backend is asked to insert

RowsInserted == (nextId - 1) + Len(votes)

NoForm == [question |-> <<>>, options |-> <<>>]

\* A handler call and its outcome.  reported is what the backend reported for
\* the call's statement: be when the handler issued its statement, nothing
\* when it returned before.
Call(op, auth, pollId, formData, optionIndex, be, res) ==
    [op |-> op, auth |-> auth, pollId |-> pollId, formData |-> formData,
     optionIndex |-> optionIndex, error |-> res.error, steps |-> res.steps,
     reported |-> IF Range(res.steps) \cap {"insert", "update", "delete", "select"} # {}
                  THEN be ELSE Null,
     data |-> res.data, validation |-> res.validation, thrown |-> res.thrown,
     changed |-> polls \ res.polls]

Idle == Call("idle", Anonymous, 0, NoForm, 0, BackendOk, Result(Null, <<>>, polls, <<>>, <<>>))

SanIdle == [pieces |-> <<>>, input |-> <<>>, output |-> <<>>, done |-> FALSE]

NoCalls == <<>>

\* No form component is mounted.
NoComponent == [kind |-> "none"]

\* No request is being handled: the next one may start.
Ready == last = Idle

Apply(res) ==
    /\ polls' = res.polls
    /\ votes' = res.votes
    /\ nextId' = IF \E r \in res.polls : r.id = nextId THEN nextId + 1 ELSE nextId
    /\ UNCHANGED <<san, calls>>

createPoll(formData, auth, be) ==
    LET res == createPollResult(formData, auth, be)
    IN  /\ Ready
        /\ RowsInserted < MaxRows
        /\ last' = Call("createPoll", auth, 0, formData, 0, be, res)
        /\ Apply(res)
        /\ UNCHANGED form

updatePoll(pollId, formData, auth, be) ==
    LET res == updatePollResult(pollId, formData, auth, be)
    IN  /\ Ready
        /\ last' = Call("updatePoll", auth, pollId, formData, 0, be, res)
        /\ Apply(res)
        /\ UNCHANGED form

deletePoll(id, auth, be) ==
    LET res == deletePollResult(id, auth, be)
    IN  /\ Ready
        /\ last' = Call("deletePoll", auth, id, NoForm, 0, be, res)
        /\ Apply(res)
        /\ UNCHANGED form

adminDeletePoll(id, auth, be) ==
    LET res == adminDeletePollResult(id, auth, be)
    IN  /\ Ready
        /\ last' = Call("adminDeletePoll", auth, id, NoForm, 0, be, res)
        /\ Apply(res)
        /\ UNCHANGED form

submitVote(pollId, optionIndex, auth, be) ==
    LET res == submitVoteResult(pollId, optionIndex, auth, be)
    IN  /\ Ready
        /\ RowsInserted < MaxRows
        /\ last' = Call("submitVote", auth, pollId, NoForm, optionIndex, be, res)
        /\ Apply(res)
        /\ UNCHANGED form

getUserPolls(auth, be) ==
    LET res == getUserPollsResult(auth, be)
    IN  /\ Ready
        /\ last' = Call("getUserPolls", auth, 0, NoForm, 0, be, res)
        /\ Apply(res)
        /\ UNCHANGED form

getPollById(id, auth, be) ==
    LET res == getPollByIdResult(id, auth, be)
    IN  /\ Ready
        /\ last' = Call("getPollById", auth, id, NoForm, 0, be, res)
        /\ Apply(res)
        /\ UNCHANGED form

\* The caller has received the handler's result; the next request may start.
Return ==
    /\ last # Idle
    /\ last' = Idle
    /\ UNCHANGED <<polls, votes, nextId, san, calls, form>>

-----------------------------------------------------------------------------
(* Inputs of the handler specification *)

FormPlain   == [question |-> <<"Q", "?">>, options |-> << <<"y">>, <<"n">> >>]
FormTagged  == [question |-> <<"<", "i", ">", "W", "?">>,
                options  |-> << <<"<", "b", ">">>, <<"y">>, <<"n">> >>]
FormBlanks  == [question |-> <<"Q", "?">>,
                options  |-> << <<"y">>, <<>>, <<"n">> >>]
FormInvalid == [question |-> <<" ">>, options |-> << <<"y">> >>]
Forms == {FormPlain, FormTagged, FormBlanks, FormInvalid}

PollIds == 1..MaxRows
OptionIndexes == {-1, 0, 2}
Voters == {Anonymous, AuthFailure, LoggedIn(Alice)}

Init ==
    /\ polls = {}
    /\ votes = <<>>
    /\ nextId = 1
    /\ last = Idle
    /\ san = SanIdle
    /\ calls = NoCalls
    /\ form = NoComponent

Next ==
    \/ /\ Ready
       /\ \E f \in Forms, a \in AuthOutcomes, be \in BackendOutcomes : createPoll(f, a, be)
    \/ /\ Ready
       /\ \E id \in PollIds, f \in Forms, a \in AuthOutcomes, be \in BackendOutcomes :
              updatePoll(id, f, a, be)
    \/ /\ Ready
       /\ \E id \in PollIds, a \in AuthOutcomes, be \in BackendOutcomes :
              deletePoll(id, a, be)
    \/ /\ Ready
       /\ \E id \in PollIds, a \in AuthOutcomes, be \in BackendOutcomes :
              adminDeletePoll(id, a, be)
    \/ /\ Ready
       /\ \E id \in PollIds, i \in OptionIndexes, a \in Voters, be \in BackendOutcomes :
              submitVote(id, i, a, be)
    \/ /\ Ready
       /\ \E a \in AuthOutcomes, be \in BackendOutcomes : getUserPolls(a, be)
    \/ /\ Ready
       /\ \E id \in PollIds, a \in Voters, be \in BackendOutcomes : getPollById(id, a, be)
    \/ Return

Spec == Init /\ [][Next]_vars

-----------------------------------------------------------------------------
(* One call of createPoll or updatePoll on a database that holds one poll, *)
(* for forms around the limits of validatePollInput.                       *)

Margin       == 1    \* lengths within Margin of a length limit are submitted
ExtraOptions == 2    \* option lists have up to MaxOptions + ExtraOptions entries

Padded(lead, body, trail) == Repeat(" ", lead) \o body \o Repeat(" ", trail)

LengthsAround(limit) == {0, 1} \cup ((limit - Margin)..(limit + Margin))

InputQuestions ==
    {Padded(pad, Repeat("q", n), pad) :
        n \in LengthsAround(MaxQuestionLength), pad \in {0, 1}}

SpecialOptions ==
    {<<>>, <<" ">>, <<"<", "b", ">">>}
        \cup {Padded(pad, Repeat("o", n), pad) :
                n \in (MaxOptionLength - Margin)..(MaxOptionLength + Margin),
                pad \in {0, 1}}

\* n entries "y", the entry at position k (if any) replaced by a special one.
OptionList(n, k, special) == [i \in 1..n |-> IF i = k THEN special ELSE <<"y">>]

InputOptionLists ==
    {OptionList(n, k, special) :
        n \in 0..(MaxOptions + ExtraOptions),
        k \in {0, 1, MinOptions, MaxOptions, MaxOptions + ExtraOptions},
        special \in SpecialOptions}

InputForms ==
    {[question |-> q, options |-> o] : q \in InputQuestions, o \in InputOptionLists}

InputCallers == {Anonymous, LoggedIn(Alice)}

SeedPoll == [id |-> 1, user_id |-> Alice.id,
             question |-> sanitizeString(FormPlain.question),
             options |-> Map(sanitizeString, FilterBoolean(FormPlain.options)),
             created_at |-> 1]

InitInput ==
    /\ polls = {SeedPoll}
    /\ votes = <<>>
    /\ nextId = 2
    /\ last = Idle
    /\ san = SanIdle
    /\ calls = NoCalls
    /\ form = NoComponent

NextInput ==
    \/ /\ Ready
       /\ \E f \in InputForms, a \in InputCallers, be \in BackendOutcomes :
              createPoll(f, a, be)
    \/ /\ Ready
       /\ \E f \in InputForms, a \in InputCallers, be \in BackendOutcomes :
              updatePoll(SeedPoll.id, f, a, be)

SpecInput == InitInput /\ [][NextInput]_vars

-----------------------------------------------------------------------------
(* One call of createPoll or updatePoll made directly, not through the     *)
(* forms: a field may be missing, blank or a File.                         *)

EntryQuestions == {FormPlain.question, <<>>, <<" ">>, File}

EntryOptionLists ==
    { << <<"y">>, <<"n">> >>,
      << <<"y">> >>,
      << <<" ">>, <<"y">> >>,
      << <<" ">> >>,
      << File, <<"y">> >>,
      << <<"y">>, <<"n">>, File >>,
      << >> }

EntryForms ==
    {[question |-> q, options |-> o] : q \in EntryQuestions, o \in EntryOptionLists}

NextEntries ==
    \/ /\ Ready
       /\ \E f \in EntryForms, a \in Voters, be \in BackendOutcomes :
              createPoll(f, a, be)
    \/ /\ Ready
       /\ \E f \in EntryForms, a \in Voters, be \in BackendOutcomes :
              updatePoll(SeedPoll.id, f, a, be)

SpecEntries == InitInput /\ [][NextEntries]_vars

-----------------------------------------------------------------------------
(* One call of createPoll or updatePoll with a form that has option inputs *)
(* left empty or filled with blanks.                                       *)

BlankOptionLists ==
    { << <<"y">>, <<"n">> >>,
      << <<"y">>, <<>>, <<"n">> >>,
      << <<>>, <<"y">> >>,
      << <<>>, <<>> >>,
      << <<>>, <<" ">>, <<"y">> >>,
      << <<"y">>, <<>>, <<" ">> >>,
      << <<" ">>, <<>>, <<"\t", " ">>, <<"y">> >>,
      << <<>>, <<"<", "b", ">">>, <<"y">>, <<>>, <<"n">> >>,
      OptionList(MaxOptions + 1, 1, <<>>),
      OptionList(MaxOptions + 2, MaxOptions, <<>>) }

BlankForms ==
    {[question |-> q, options |-> o] :
        q \in {FormPlain.question, <<" ">>}, o \in BlankOptionLists}

NextBlanks ==
    \/ /\ Ready
       /\ \E f \in BlankForms, a \in Voters, be \in BackendOutcomes :
              createPoll(f, a, be)
    \/ /\ Ready
       /\ \E f \in BlankForms, a \in Voters, be \in BackendOutcomes :
              updatePoll(SeedPoll.id, f, a, be)

SpecBlanks == InitInput /\ [][NextBlanks]_vars

-----------------------------------------------------------------------------
(* updatePoll, deletePoll and adminDeletePoll calls on one poll running    *)
(* concurrently.  A handler is suspended at each await: a call is waiting  *)
(* for getUser, waiting for its backend statement, or done; the steps of   *)
(* other calls come in between.                                            *)

MaxCalls == 3    \* handler calls started

\* The calls made: updates and deletes by the poll's owner (Alice) and by
\* another user, administrative deletes by an administrator and by a user
\* who is none.
ConcurrentCalls ==
    ({"updatePoll", "deletePoll"} \X {LoggedIn(Alice), LoggedIn(Bob)})
        \cup ({"adminDeletePoll"} \X {LoggedIn(Bob), LoggedIn(Root)})

\* The form submitted by the n-th call, when it is an updatePoll.
EditForm(n) == [question |-> <<"Q", ToString(n)>>, options |-> << <<"y">>, <<"n">> >>]

\* The handler of a call, with the backend statement reporting be.
HandlerResult(call, be) ==
    CASE call.op = "updatePoll" ->
             updatePollResult(call.pollId, call.formData, call.auth, be)
      [] call.op = "deletePoll" -> deletePollResult(call.pollId, call.auth, be)
      [] call.op = "adminDeletePoll" -> adminDeletePollResult(call.pollId, call.auth, be)

\* The handler returns without a backend statement.
ReturnsEarly(call) ==
    Range(HandlerResult(call, BackendOk).steps) \cap {"insert", "update", "delete"} = {}

BeginCall(op, auth) ==
    /\ Len(calls) < MaxCalls
    /\ calls' = Append(calls,
           [op |-> op, auth |-> auth, pollId |-> SeedPoll.id,
            formData |-> IF op = "updatePoll" THEN EditForm(Len(calls) + 1) ELSE NoForm,
            pc |-> "getUser", error |-> Null, steps |-> <<>>, changed |-> {},
            executed |-> FALSE])
    /\ UNCHANGED <<polls, votes, nextId, last, san, form>>

\* await supabase.auth.getUser() completes; the checks up to the backend
\* statement follow.
ResolveUser(c) ==
    LET res == HandlerResult(calls[c], BackendOk)
    IN  /\ calls[c].pc = "getUser"
        /\ calls' = [calls EXCEPT ![c] =
               IF ReturnsEarly(calls[c])
               THEN [@ EXCEPT !.pc = "done", !.error = res.error, !.steps = res.steps]
               ELSE [@ EXCEPT !.pc = "backend"]]
        /\ UNCHANGED <<polls, votes, nextId, last, san, form>>

\* The backend executes the call's statement on the table as it is now; the
\* handler returns.
BackendStatement(c, be) ==
    LET res == HandlerResult(calls[c], be)
    IN  /\ calls[c].pc = "backend"
        /\ polls' = res.polls
        /\ calls' = [calls EXCEPT ![c] =
               [@ EXCEPT !.pc = "done", !.error = res.error, !.steps = res.steps,
                         !.changed = polls \ res.polls, !.executed = (be = BackendOk)]]
        /\ UNCHANGED <<votes, nextId, last, san, form>>

InitConcurrent ==
    /\ polls = {SeedPoll}
    /\ votes = <<>>
    /\ nextId = 2
    /\ last = Idle
    /\ san = SanIdle
    /\ calls = NoCalls
    /\ form = NoComponent

NextConcurrent ==
    \/ \E call \in ConcurrentCalls : BeginCall(call[1], call[2])
    \/ \E c \in 1..Len(calls) : ResolveUser(c)
    \/ \E c \in 1..Len(calls), be \in BackendOutcomes : BackendStatement(c, be)

SpecConcurrent == InitConcurrent /\ [][NextConcurrent]_vars

-----------------------------------------------------------------------------
(* The form components PollCreateForm and EditPollForm.  options is the    *)
(* state held by React, with the queued updaters applied; rendered is the  *)
(* value of options at the last render, which is what the inputs show and  *)
(* what the closures removeOption and the form action read.                *)

MaxFormOptions == 4    \* entries of the options list of a form
MaxSubmissions == 2    \* submissions of a form

RedirectDelay == 1200

\* A backend error whose message is the empty string.
BackendFailureNoMessage == Some([message |-> ""])
FormBackendOutcomes == BackendOutcomes \cup {BackendFailureNoMessage}

\* if (res?.error): null, undefined and the empty string are falsy.
Truthy(error) == error # Null /\ ValueOf(error) # ""

Component(kind, pollId, question, options) ==
    [kind |-> kind, pollId |-> pollId, question |-> question,
     options |-> options, rendered |-> options,
     error |-> Null, success |-> FALSE,
     pending |-> <<>>, outcome |-> <<>>, scheduled |-> FALSE,
     timers |-> <<>>, location |-> "form", submissions |-> 0]

\* useState(["", ""]); the question is typed into its input.
PollCreateFormMounted == Component("create", 0, FormPlain.question, << <<>>, <<>> >>)

\* useState(poll.question), useState(poll.options || [])
EditPollFormMounted(poll) == Component("edit", poll.id, poll.question, poll.options)

\* setOptions((opts) => [...opts, ""])
addOption ==
    /\ form.location = "form"
    /\ Len(form.options) < MaxFormOptions
    /\ form' = [form EXCEPT !.options = Append(@, <<>>)]
    /\ UNCHANGED <<polls, votes, nextId, last, san, calls>>

\* opts.filter((_, i) => i !== idx)
WithoutIndex(opts, idx) ==
    [i \in 1..(Len(opts) - (IF idx < Len(opts) THEN 1 ELSE 0)) |->
        IF i <= idx THEN opts[i] ELSE opts[i + 1]]

\* if (options.length > 2) setOptions((opts) => opts.filter(...)): the test
\* reads the options of the last render, the updater gets the current state.
removeOption(idx) ==
    /\ form.location = "form"
    /\ form' = [form EXCEPT !.options =
           IF Len(form.rendered) > 2 THEN WithoutIndex(@, idx) ELSE @]
    /\ UNCHANGED <<polls, votes, nextId, last, san, calls>>

\* setOptions((opts) => opts.map((opt, i) => (i === idx ? value : opt)))
handleOptionChange(idx, value) ==
    /\ form.location = "form"
    /\ form' = [form EXCEPT !.options =
           [i \in 1..Len(@) |-> IF i = idx + 1 THEN value ELSE @[i]]]
    /\ UNCHANGED <<polls, votes, nextId, last, san, calls>>

\* React renders the component again: the inputs and the closures are those
\* of the current state.
Render ==
    /\ form.location = "form"
    /\ form.rendered # form.options
    /\ form' = [form EXCEPT !.rendered = form.options]
    /\ UNCHANGED <<polls, votes, nextId, last, san, calls>>

\* The inputs are marked required: the browser submits the form when none of
\* them is empty.
RequiredFilled ==
    /\ form.question # <<>>
    /\ \A i \in 1..Len(form.rendered) : form.rendered[i] # <<>>

\* The form data of a submission: the question and one "options" entry for
\* each option rendered.
SubmittedData == [question |-> form.question, options |-> form.rendered]

\* The form action up to its await: setError(null), setSuccess(false) and the
\* call of the server action, whose result is awaited.
SubmitForm(auth, be) ==
    LET res == IF form.kind = "create"
               THEN createPollResult(SubmittedData, auth, be)
               ELSE updatePollResult(form.pollId, SubmittedData, auth, be)
    IN  /\ form.location = "form"
        /\ form.submissions < MaxSubmissions
        /\ RequiredFilled
        /\ form.kind = "create" => RowsInserted < MaxRows
        /\ form' = [form EXCEPT !.error = Null, !.success = FALSE,
                                !.pending = Append(@, res.error),
                                !.outcome = <<>>, !.scheduled = FALSE,
                                !.submissions = @ + 1]
        /\ Apply(res)
        /\ UNCHANGED last

\* The form action after its await: res is the error the server action
\* returned.
CompleteSubmission ==
    /\ form.location = "form"
    /\ form.pending # <<>>
    /\ LET error == Head(form.pending)
       IN  form' =
             IF Truthy(error)
             THEN [form EXCEPT !.pending = Tail(@), !.outcome = <<error>>,
                               !.error = error, !.scheduled = FALSE]
             ELSE [form EXCEPT !.pending = Tail(@), !.outcome = <<error>>,
                               !.success = TRUE, !.scheduled = TRUE,
                               !.timers = Append(@, [delay |-> RedirectDelay,
                                                     href |-> "/polls"])]
    /\ UNCHANGED <<polls, votes, nextId, last, san, calls>>

\* The delay of the oldest timer has passed: window.location.href = "/polls".
TimerFires ==
    /\ form.location = "form"
    /\ form.timers # <<>>
    /\ form' = [form EXCEPT !.location = Head(form.timers).href, !.timers = Tail(@)]
    /\ UNCHANGED <<polls, votes, nextId, last, san, calls>>

OptionValues == {<<"a">>}

FormCallers == {Anonymous, LoggedIn(Alice)}

InitForms ==
    /\ polls = {SeedPoll}
    /\ votes = <<>>
    /\ nextId = 2
    /\ last = Idle
    /\ san = SanIdle
    /\ calls = NoCalls
    /\ form \in {PollCreateFormMounted, EditPollFormMounted(SeedPoll)}

\* Filling in and submitting a form.
NextForms ==
    \/ \E idx \in 0..(MaxFormOptions - 1), value \in OptionValues :
           handleOptionChange(idx, value)
    \/ Render
    \/ \E a \in FormCallers, be \in FormBackendOutcomes : SubmitForm(a, be)
    \/ CompleteSubmission
    \/ TimerFires

SpecForms == InitForms /\ [][NextForms]_vars

\* Editing the options list of a form.
NextFormOptions ==
    \/ addOption
    \/ \E idx \in 0..(MaxFormOptions - 1) : removeOption(idx)
    \/ \E idx \in 0..(MaxFormOptions - 1), value \in OptionValues :
           handleOptionChange(idx, value)
    \/ Render

SpecFormOptions == InitForms /\ [][NextFormOptions]_vars

-----------------------------------------------------------------------------
(* The admin dashboard AdminPage.  polls is the list held by React, which  *)
(* the page displays; a call of handleDelete keeps across its await the    *)
(* polls of the render whose Delete button was clicked.                    *)

MaxDeletions == 3    \* calls of handleDelete

\* The polls stored when the page is opened.
AdminPolls ==
    { SeedPoll,
      [SeedPoll EXCEPT !.id = 2, !.user_id = Bob.id, !.created_at = 2],
      [SeedPoll EXCEPT !.id = 3, !.user_id = Root.id, !.created_at = 3] }

AdminPollIds == {p.id : p \in AdminPolls}

\* useState([]), useState(true), useState(null); the admin check has passed.
AdminPageMounted ==
    [kind |-> "admin", polls |-> <<>>, loading |-> TRUE, deleteLoading |-> Null,
     inFlight |-> <<>>, deleted |-> {}, alert |-> Null, deletions |-> 0]

\* select("*").order("created_at", { ascending: false }), run once by the
\* effect on isAdmin: if (!error && data) setPolls(data); setLoading(false)
fetchAllPolls(be) ==
    /\ form.loading
    /\ form' = [form EXCEPT !.polls = IF be = Null THEN OrderDescending(polls) ELSE @,
                            !.loading = FALSE]
    /\ UNCHANGED <<polls, votes, nextId, last, san, calls>>

\* The polls whose cards the page shows.
DisplayedPolls == {form.polls[i].id : i \in 1..Len(form.polls)}

\* disabled={deleteLoading === poll.id}
DeleteDisabled(pollId) == form.deleteLoading = Some(pollId)

\* handleDelete up to its await, started by a click on the enabled Delete
\* button of a displayed poll and with the confirm dialog accepted:
\* setDeleteLoading(pollId) and the call of adminDeletePoll, whose result is
\* awaited.  polls is the list of the render that made the button.
handleDelete(pollId, auth, be) ==
    LET res == adminDeletePollResult(pollId, auth, be)
    IN  /\ ~form.loading
        /\ pollId \in DisplayedPolls
        /\ ~DeleteDisabled(pollId)
        /\ form.deletions < MaxDeletions
        /\ form' = [form EXCEPT !.deleteLoading = Some(pollId),
                                !.inFlight = Append(@, [pollId |-> pollId,
                                                        polls |-> form.polls,
                                                        error |-> res.error]),
                                !.deletions = @ + 1]
        /\ Apply(res)
        /\ UNCHANGED last

\* handleDelete after its await, for the call at position c of those in
\* flight: if (!result.error) setPolls(polls.filter(...)) else alert(...);
\* setDeleteLoading(null).  deleted collects the polls of the calls that
\* returned with error null.
handleDeleteResumes(c) ==
    /\ LET call == form.inFlight[c]
           rest == WithoutIndex(form.inFlight, c - 1)
       IN  form' =
             IF ~Truthy(call.error)
             THEN [form EXCEPT !.inFlight = rest,
                               !.polls = SelectSeq(call.polls,
                                            LAMBDA poll : poll.id # call.pollId),
                               !.deleted = IF call.error = Null
                                           THEN @ \cup {call.pollId} ELSE @,
                               !.deleteLoading = Null]
             ELSE [form EXCEPT !.inFlight = rest,
                               !.alert = call.error,
                               !.deleteLoading = Null]
    /\ UNCHANGED <<polls, votes, nextId, last, san, calls>>

AdminCallers == {LoggedIn(Root), Anonymous}

InitAdmin ==
    /\ polls = AdminPolls
    /\ votes = <<>>
    /\ nextId = 4
    /\ last = Idle
    /\ san = SanIdle
    /\ calls = NoCalls
    /\ form = AdminPageMounted

NextAdmin ==
    \/ \E be \in BackendOutcomes : fetchAllPolls(be)
    \/ \E p \in AdminPollIds, a \in AdminCallers, be \in BackendOutcomes :
           handleDelete(p, a, be)
    \/ \E c \in 1..Len(form.inFlight) : handleDeleteResumes(c)

SpecAdmin == InitAdmin /\ [][NextAdmin]_vars

-----------------------------------------------------------------------------
(* sanitizeString applied to strings put together from a few pieces. *)

MaxPieces == 4    \* pieces in an input of sanitizeString

Pieces ==
    { <<"H", "e", "l", "l", "o">>,
      <<"a", "l", "e", "r", "t", "(", "1", ")">>,
      <<" ">>,
      <<"\n">>,
      <<"<">>,
      <<">">>,
      <<"<", "b", ">">>,
      <<"<", "s", "c", "r", "i", "p", "t", ">">>,
      <<"<", "S", "c", "r", "i", "p", "t", " ", "x", ">">>,
      <<"<", "/", "s", "c", "r", "i", "p", "t", ">">>,
      <<"<", "/", "S", "C", "R", "I", "P", "T", ">">> }

PieceSeqs == UNION {[1..n -> Pieces] : n \in 0..MaxPieces}

InitSanitize ==
    /\ polls = {}
    /\ votes = <<>>
    /\ nextId = 1
    /\ last = Idle
    /\ san \in {[pieces |-> ps, input |-> Concat(ps), output |-> <<>>, done |-> FALSE] :
                    ps \in PieceSeqs}
    /\ calls = NoCalls
    /\ form = NoComponent

Sanitize ==
    /\ ~san.done
    /\ san' = [san EXCEPT !.output = sanitizeString(san.input), !.done = TRUE]
    /\ UNCHANGED <<polls, votes, nextId, last, calls, form>>

SpecSanitize == InitSanitize /\ [][Sanitize]_vars

-----------------------------------------------------------------------------
(* Properties *)

\* The caller of the most recent call is authenticated.
Authenticated(call) == call.auth.user # Null
Caller(call) == ValueOf(call.auth.user)

\* The role the auth provider reports for a user, Null when there is none.
RoleOf(user) ==
    IF user.user_metadata = Null THEN Null ELSE ValueOf(user.user_metadata).role

WriteSteps == {"insert", "update", "delete"}

\* C1: a deletePoll or updatePoll call by an authenticated caller who is not
\* the owner of the stored poll it names affects zero rows: the polls table
\* is the same after the call, so the poll still exists with its question,
\* options and user_id.
C1_NonOwnerAffectsNoRow ==
    [][ ( /\ last'.op \in {"deletePoll", "updatePoll"}
          /\ Authenticated(last')
          /\ \E p \in polls : p.id = last'.pollId /\ p.user_id # Caller(last').id )
        => polls' = polls ]_vars

\* A non-owner's updatePoll with a valid form reached the backend, which
\* reported no error, and the poll it named is stored.
C1_Witness ==
    /\ last.op = "updatePoll"
    /\ Authenticated(last)
    /\ last.error = Null
    /\ "update" \in Range(last.steps)
    /\ \E p \in polls : p.id = last.pollId /\ p.user_id # Caller(last).id

\* C2: adminDeletePoll by an authenticated caller whose role is not exactly
\* "admin" deletes nothing and returns "Admin privileges required to delete
\* any poll."; by a caller whose role is "admin" it removes every poll with
\* the given id, whoever owns it, unless the backend reports an error.
C2_AdminDeleteRequiresAdminRole ==
    [][ ( last'.op = "adminDeletePoll" /\ Authenticated(last') )
        => IF RoleOf(Caller(last')) = Some("admin")
           THEN \/ /\ last'.error = Null
                   /\ polls' = {p \in polls : p.id # last'.pollId}
                \/ /\ last'.error = Some(ValueOf(BackendFailure).message)
                   /\ polls' = polls
           ELSE /\ polls' = polls
                /\ last'.error = Some("Admin privileges required to delete any poll.")
      ]_vars

\* An admin has deleted a poll owned by somebody else.
C2_Witness ==
    /\ last.op = "adminDeletePoll"
    /\ last.error = Null
    /\ RoleOf(Caller(last)) = Some("admin")
    /\ \E p \in last.changed : p.id = last.pollId /\ p.user_id # Caller(last).id
    /\ \A p \in polls : p.id # last.pollId

\* C3: in every step, a stored poll whose question or options change is
\* changed by a call of its owner; a stored poll that disappears is removed
\* by a call of its owner or of a caller with role "admin"; a poll's user_id
\* never changes; and a new poll is inserted by createPoll with the caller's
\* id as its user_id.
C3_OnlyOwnerOrAdminMutates ==
    [][ /\ \A p \in polls :
              p \notin polls' =>
                  /\ Authenticated(last')
                  /\ IF \E q \in polls' : q.id = p.id
                     THEN /\ Caller(last').id = p.user_id
                          /\ \A q \in polls' : q.id = p.id => q.user_id = p.user_id
                     ELSE \/ Caller(last').id = p.user_id
                          \/ RoleOf(Caller(last')) = Some("admin")
        /\ \A q \in polls' :
              (\A p \in polls : p.id # q.id) =>
                  /\ last'.op = "createPoll"
                  /\ Authenticated(last')
                  /\ q.user_id = Caller(last').id
      ]_vars

\* An owner has changed the question or options of a stored poll.
C3_Witness ==
    /\ last.op = "updatePoll"
    /\ last.changed # {}
    /\ \E p \in polls : p.id = last.pollId /\ p.user_id = Caller(last).id

\* C4: every stored poll has at least 2 options and every stored option is a
\* non-empty string.
C4_StoredOptionsNonEmpty ==
    \A p \in polls :
        /\ Len(p.options) >= 2
        /\ \A i \in 1..Len(p.options) : p.options[i] # <<>>

\* The text pieces of an input: those without "<" and ">".
IsPlain(piece) == \A i \in 1..Len(piece) : piece[i] \notin {"<", ">"}
IsTag(piece) == Len(piece) >= 2 /\ piece[1] = "<" /\ piece[Len(piece)] = ">"
IsScriptOpen(piece) == IsTag(piece) /\ MatchesAt(piece, 1, ScriptOpen)
IsScriptClose(piece) == MatchesAt(piece, 1, ScriptClose)

\* The pieces that are neither tags nor enclosed in a <script>...</script>
\* block, from position i on.
RECURSIVE TextOutside(_, _)
TextOutside(pieces, i) ==
    IF i > Len(pieces) THEN <<>>
    ELSE IF IsScriptOpen(pieces[i])
              /\ \E k \in (i + 1)..Len(pieces) : IsScriptClose(pieces[k])
        THEN TextOutside(pieces,
                 1 + Min({k \in (i + 1)..Len(pieces) : IsScriptClose(pieces[k])}))
    ELSE IF IsTag(pieces[i]) THEN TextOutside(pieces, i + 1)
    ELSE pieces[i] \o TextOutside(pieces, i + 1)

\* C5: for an input made of text, tags and script blocks, sanitizeString
\* returns the text outside the tags and script blocks (up to white space at
\* the two ends): the script blocks go with their content, the other tags go,
\* the surrounding text stays.
C5_ScriptBlocksAndTagsRemoved ==
    ( /\ san.done
      /\ \A i \in 1..Len(san.pieces) : IsPlain(san.pieces[i]) \/ IsTag(san.pieces[i]) )
    => trim(san.output) = trim(TextOutside(san.pieces, 1))

\* The number of characters of s other than the space.  The questions and
\* options submitted here carry spaces at their two ends only, so this is
\* the length of s once trimmed.
NonSpaceLength(s) == Cardinality({i \in 1..Len(s) : s[i] # " "})

ValidatedCall(call) == call.op \in {"createPoll", "updatePoll"}

\* C6: when the option list given to validatePollInput has fewer than 2 or
\* more than 10 entries, the error list contains "At least 2 options are
\* required" resp. "Maximum 10 options allowed", the handler returns an error
\* and the polls table is as it was; for 2 to 10 entries neither message is
\* in the list.
C6_OptionCountEnforced ==
    ValidatedCall(last) =>
        LET n == Len(last.validation.options)
            errors == Range(last.validation.errors)
        IN  /\ n < 2 =>
                /\ "At least 2 options are required" \in errors
                /\ last.error # Null
                /\ polls = {SeedPoll}
            /\ n > 10 =>
                /\ "Maximum 10 options allowed" \in errors
                /\ last.error # Null
                /\ polls = {SeedPoll}
            /\ (n >= 2 /\ n <= 10) =>
                /\ "At least 2 options are required" \notin errors
                /\ "Maximum 10 options allowed" \notin errors

\* The owner's updatePoll with 11 acceptable options and an acceptable
\* question was rejected for the count alone.
C6_Witness ==
    /\ last.op = "updatePoll"
    /\ Authenticated(last)
    /\ Len(last.validation.options) = 11
    /\ last.validation.errors = <<"Maximum 10 options allowed">>
    /\ last.error = Some("Maximum 10 options allowed")

\* C7: the question is accepted (no question message) exactly when its
\* trimmed length is in 1..500 and the option at position N exactly when its
\* trimmed length is in 1..200; a longer question gets "Question must be less
\* than 500 characters" and a longer option "Option N must be less than 200
\* characters".
C7_LengthLimitsEnforced ==
    ValidatedCall(last) =>
        LET question == last.formData.question
            options == last.validation.options
            errors == Range(last.validation.errors)
            TooLong(N) == "Option " \o ToString(N) \o " must be less than 200 characters"
            Empty(N) == "Option " \o ToString(N) \o " cannot be empty"
        IN  /\ (NonSpaceLength(question) >= 1 /\ NonSpaceLength(question) <= 500)
                <=> ( /\ "Question is required" \notin errors
                      /\ "Question must be less than 500 characters" \notin errors )
            /\ NonSpaceLength(question) > 500
                => "Question must be less than 500 characters" \in errors
            /\ \A N \in 1..Len(options) :
                /\ (NonSpaceLength(options[N]) >= 1 /\ NonSpaceLength(options[N]) <= 200)
                      <=> (TooLong(N) \notin errors /\ Empty(N) \notin errors)
                /\ NonSpaceLength(options[N]) > 200 => TooLong(N) \in errors

\* A question of 501 characters and a second option of 201 characters were
\* both reported, each under its own name.
C7_Witness ==
    /\ last.op = "createPoll"
    /\ NonSpaceLength(last.formData.question) = 501
    /\ Len(last.validation.options) >= 2
    /\ NonSpaceLength(last.validation.options[2]) = 201
    /\ last.validation.errors =
           <<"Question must be less than 500 characters",
             "Option 2 must be less than 200 characters">>

\* C8: when getUser yields no user, createPoll, updatePoll, deletePoll and
\* adminDeletePoll return an error, leave both tables as they were and
\* perform no insert, update, delete or revalidatePath; a call without a
\* user that performs a write is a submitVote.
C8_FailClosedWithoutUser ==
    [][ /\ ( /\ last'.op \in {"createPoll", "updatePoll", "deletePoll", "adminDeletePoll"}
             /\ ~Authenticated(last') )
           => /\ last'.error # Null
              /\ polls' = polls
              /\ votes' = votes
              /\ Range(last'.steps) \cap (WriteSteps \cup {"revalidatePath"}) = {}
        /\ ( /\ last'.op # "idle"
             /\ ~Authenticated(last')
             /\ Range(last'.steps) \cap WriteSteps # {} )
           => last'.op = "submitVote"
      ]_vars

\* An anonymous deletePoll of a stored poll was turned away.
C8_Witness ==
    /\ last.op = "deletePoll"
    /\ last.auth = Anonymous
    /\ last.error = Some("You must be logged in to delete a poll.")
    /\ \E p \in polls : p.id = last.pollId

\* C9: a mutating handler that returns { error: null } has called
\* revalidatePath("/polls") as its last step, right after its backend write.
C9_SuccessfulWriteInvalidates ==
    ( /\ last.op \in {"createPoll", "updatePoll", "deletePoll", "adminDeletePoll",
                      "submitVote"}
      /\ last.error = Null )
    => /\ Len(last.steps) >= 2
       /\ last.steps[Len(last.steps)] = "revalidatePath"
       /\ last.steps[Len(last.steps) - 1] \in WriteSteps

AuthenticationErrors ==
    {Some(ValueOf(AuthFailure.error).message),
     Some("You must be logged in to create a poll."),
     Some("You must be logged in to update a poll.")}

\* C10 as stated: createPoll and updatePoll resolve the caller before they
\* validate, so without a user the result is the authentication error
\* whatever the form.
C10_AuthenticateBeforeValidate ==
    (ValidatedCall(last) /\ ~Authenticated(last))
        => last.error \in AuthenticationErrors

StepRank(step) ==
    CASE step = "validate" -> 1
      [] step = "sanitize" -> 2
      [] step = "getUser" -> 3
      [] step = "isAdmin" -> 4
      [] step \in WriteSteps \cup {"select"} -> 5
      [] step = "revalidatePath" -> 6

\* C10 as amended: the steps a handler performs come in the order validate,
\* authenticate, authorize, backend statement, invalidate; createPoll and
\* updatePoll validate the form before they resolve the caller, so without a
\* user the result is the validation error when the form is invalid and the
\* authentication error when it is valid.
C10_ValidateBeforeAuthenticate ==
    /\ \A i, j \in 1..Len(last.steps) :
           i < j => StepRank(last.steps[i]) < StepRank(last.steps[j])
    /\ (ValidatedCall(last) /\ ~Authenticated(last)) =>
           IF last.validation.errors # <<>>
           THEN /\ last.error = Some(join(last.validation.errors))
                /\ last.steps = <<"validate">>
           ELSE /\ last.error \in AuthenticationErrors
                /\ last.steps = <<"validate", "sanitize", "getUser">>

\* An anonymous createPoll with an invalid form stopped at validation.
C10_Witness ==
    /\ last.op = "createPoll"
    /\ last.auth = Anonymous
    /\ last.validation.errors # <<>>
    /\ last.steps = <<"validate">>
    /\ last.error = Some(join(last.validation.errors))

\* C11: getUserPolls by an authenticated caller u returns, with error null,
\* exactly the stored polls whose user_id is u.id, each once, newest first
\* (or the backend's error and no poll when the select fails); without a
\* user it returns no poll and "Not authenticated" and performs no select.
C11_UserPollsOwnedNewestFirst ==
    last.op = "getUserPolls" =>
        IF Authenticated(last)
        THEN \/ /\ last.error = Null
                /\ Range(last.data) = {p \in polls : p.user_id = Caller(last).id}
                /\ \A i, j \in 1..Len(last.data) :
                       i < j => last.data[i].created_at > last.data[j].created_at
             \/ /\ last.error = Some(ValueOf(BackendFailure).message)
                /\ last.data = <<>>
        ELSE /\ last.error = Some("Not authenticated")
             /\ last.data = <<>>
             /\ "select" \notin Range(last.steps)

\* A caller who owns two polls got both, the newer one first.
C11_Witness ==
    /\ last.op = "getUserPolls"
    /\ last.error = Null
    /\ Len(last.data) = 2
    /\ last.data[1].created_at > last.data[2].created_at
    /\ \A i \in 1..2 : last.data[i].user_id = Caller(last).id

\* C12: every stored vote references a stored poll, and its option_index is
\* an index into that poll's current options: 0 <= option_index < number of
\* options.
C12_VotesReferencePollAndOption ==
    \A i \in 1..Len(votes) :
        \E p \in polls :
            /\ p.id = votes[i].poll_id
            /\ votes[i].option_index >= 0
            /\ votes[i].option_index < Len(p.options)

\* C13: no call raises an exception; the error a call returns is null or one
\* string; and when the question is blank, the options are fewer than 2 or an
\* option is blank, createPoll and updatePoll return every one of the
\* messages for these problems, joined with ", " into one string.
C13_NoExceptionErrorsJoined ==
    /\ ~last.thrown
    /\ Len(last.error) <= 1
    /\ ValidatedCall(last) =>
           LET question == last.formData.question
               options == FilterBoolean(last.formData.options)
               errors == last.validation.errors
           IN  /\ NonSpaceLength(question) = 0
                      => "Question is required" \in Range(errors)
               /\ Len(options) < MinOptions
                      => "At least 2 options are required" \in Range(errors)
               /\ \A N \in 1..Len(options) :
                      NonSpaceLength(options[N]) = 0
                          => OptionMessage(N, " cannot be empty") \in Range(errors)
               /\ errors # <<>> => last.error = Some(join(errors))

\* C14: a submitVote(pollId, optionIndex) call, whoever makes it and
\* whatever the index, either adds the one row (poll_id = pollId,
\* option_index = optionIndex, user_id = the caller's id, null without a
\* user) to the votes and returns error null, or returns the backend's error
\* and leaves the votes as they were.
C14_VoteStoredUnchecked ==
    [][ last'.op = "submitVote" =>
          LET row == [poll_id |-> last'.pollId,
                      user_id |-> IF Authenticated(last') THEN Some(Caller(last').id)
                                  ELSE Null,
                      option_index |-> last'.optionIndex]
          IN  \/ /\ last'.error = Null
                 /\ votes' = Append(votes, row)
              \/ /\ last'.error = Some(ValueOf(BackendFailure).message)
                 /\ votes' = votes
      ]_vars

\* An anonymous vote with a negative index, for a poll that has two options,
\* was stored.
C14_Witness ==
    /\ last.op = "submitVote"
    /\ last.auth = Anonymous
    /\ last.optionIndex < 0
    /\ last.error = Null
    /\ \E p \in polls : p.id = last.pollId /\ Len(p.options) = 2
    /\ votes[Len(votes)] =
           [poll_id |-> last.pollId, user_id |-> Null, option_index |-> last.optionIndex]

\* The backend statement of a call, as a function of the table.
Mutation(call, table) ==
    CASE call.op = "updatePoll" ->
             UpdateOwned(table, call.pollId, ValueOf(call.auth.user),
                         sanitizeString(call.formData.question),
                         Map(sanitizeString, FilterBoolean(call.formData.options)))
      [] call.op = "deletePoll" -> DeleteOwned(table, call.pollId, ValueOf(call.auth.user))
      [] call.op = "adminDeletePoll" -> DeleteById(table, call.pollId)

\* The table after the statements of the calls listed in order, one after
\* the other.
RECURSIVE ApplySerial(_, _)
ApplySerial(table, order) ==
    IF order = <<>> THEN table
    ELSE ApplySerial(Mutation(calls[Head(order)], table), Tail(order))

\* The orders of the calls whose backend statement has been executed.
SerialOrders ==
    LET executed == {c \in 1..Len(calls) : calls[c].executed}
    IN  {order \in [1..Cardinality(executed) -> executed] :
            \A i, j \in 1..Cardinality(executed) : i # j => order[i] # order[j]}

\* C15: under every interleaving of updatePoll, deletePoll and
\* adminDeletePoll calls on one poll, a step that changes the table is the
\* one backend statement of one call, not preceded by a read of the poll; a
\* row changed by an updatePoll or deletePoll call is owned by its caller;
\* and the table is what the statements executed so far give in some serial
\* order.
C15_AtomicOwnershipUnderInterleaving ==
    [][ /\ polls' # polls =>
              \E c \in 1..Len(calls) :
                  /\ calls[c].pc = "backend"
                  /\ calls'[c].pc = "done"
                  /\ \A d \in 1..Len(calls) : d # c => calls'[d] = calls[d]
                  /\ "select" \notin Range(calls'[c].steps)
                  /\ calls'[c].changed = polls \ polls'
        /\ \A c \in 1..Len(calls') :
              calls'[c].op \in {"updatePoll", "deletePoll"} =>
                  \A r \in calls'[c].changed : r.user_id = ValueOf(calls'[c].auth.user).id
        /\ \E order \in SerialOrders' : polls' = ApplySerial({SeedPoll}, order)'
      ]_vars

\* A non-owner's updatePoll ran to its end, its statement executed without
\* error and changing no row, while the owner's updatePoll, started before
\* it, was waiting for its own statement and an administrator's
\* adminDeletePoll was in progress.
C15_Witness ==
    /\ Len(calls) = 3
    /\ calls[1].op = "updatePoll" /\ calls[1].auth = LoggedIn(Alice)
    /\ calls[1].pc = "backend"
    /\ calls[2].op = "updatePoll" /\ calls[2].auth = LoggedIn(Bob)
    /\ calls[2].pc = "done" /\ calls[2].executed /\ calls[2].error = Null
    /\ calls[2].changed = {}
    /\ calls[3].op = "adminDeletePoll" /\ calls[3].auth = LoggedIn(Root)
    /\ calls[3].pc # "done"
    /\ polls = {SeedPoll}

\* C16: getPollById(id) leaves both tables as they are, performs the select
\* and nothing else, and when a poll with that id is stored it returns that
\* poll (or the backend's error), whoever is calling; getUserPolls leaves
\* both tables as they are and performs no write and no revalidatePath.
C16_ReadsReturnPollChangeNothing ==
    [][ /\ last'.op = "getPollById" =>
              /\ polls' = polls
              /\ votes' = votes
              /\ last'.steps = <<"select">>
              /\ \A p \in polls :
                     p.id = last'.pollId =>
                         \/ last'.error = Null /\ last'.data = <<p>>
                         \/ /\ last'.error = Some(ValueOf(BackendFailure).message)
                            /\ last'.data = <<>>
        /\ last'.op = "getUserPolls" =>
              /\ polls' = polls
              /\ votes' = votes
              /\ Range(last'.steps) \cap (WriteSteps \cup {"revalidatePath"}) = {}
      ]_vars

\* A caller without a session got a stored poll, which belongs to a user.
C16_Witness ==
    /\ last.op = "getPollById"
    /\ last.error = Null
    /\ last.auth = Anonymous
    /\ Len(last.data) = 1
    /\ last.data[1].id = last.pollId
    /\ last.data[1].user_id \in {u.id : u \in Users}
    /\ last.data[1] \in polls

\* C17: when the backend reports an error for the statement of a call, the
\* call returns exactly the reported message as its error, returns no data
\* and does not call revalidatePath; and no call that returns an error has
\* called revalidatePath.
C17_BackendErrorPassedThrough ==
    /\ last.reported # Null =>
           /\ last.error = Some(ValueOf(last.reported).message)
           /\ last.data = <<>>
           /\ "revalidatePath" \notin Range(last.steps)
    /\ last.error # Null => "revalidatePath" \notin Range(last.steps)

\* The delete of an administrator's adminDeletePoll failed in the backend:
\* the call returned the backend's message and the poll is still stored.
C17_Witness ==
    /\ last.op = "adminDeletePoll"
    /\ last.reported = BackendFailure
    /\ last.error = Some("backend unavailable")
    /\ last.steps = <<"getUser", "isAdmin", "delete">>
    /\ \E p \in polls : p.id = last.pollId

\* C18: a submitVote call that returns error null adds exactly one row at
\* the end of the votes and leaves the others as they are; every other call
\* of a handler, and a submitVote that returns an error, leaves the votes as
\* they are.  So the votes only grow.
C18_VotesOnlyGrow ==
    [][ IF last'.op = "submitVote" /\ last'.error = Null
        THEN /\ Len(votes') = Len(votes) + 1
             /\ SubSeq(votes', 1, Len(votes)) = votes
        ELSE votes' = votes
      ]_vars

\* The owner has deleted a poll; the vote cast for it is still stored.
C18_Witness ==
    /\ last.op = "deletePoll"
    /\ last.error = Null
    /\ \E p \in last.changed : p.id = last.pollId
    /\ \A p \in polls : p.id # last.pollId
    /\ \E i \in 1..Len(votes) : votes[i].poll_id = last.pollId

\* C19: once a submission of either form has got its handler's result: if
\* the returned error is not null, the form's error is that string and the
\* submission has scheduled no redirect; if it is null, the form shows the
\* success state and the submission has scheduled the redirect to /polls
\* with a delay of 1200 ms, which is pending or has taken place.
C19_ErrorDisplayedElseRedirect ==
    form.outcome # <<>> =>
        LET returned == form.outcome[1]
        IN  IF returned # Null
            THEN /\ form.error = returned
                 /\ ~form.scheduled
            ELSE /\ form.success
                 /\ form.scheduled
                 /\ \/ form.location = "/polls"
                    \/ \E i \in 1..Len(form.timers) :
                           form.timers[i] = [delay |-> 1200, href |-> "/polls"]

\* C20: in both forms the options list always has at least 2 entries,
\* whatever addOption, removeOption and handleOptionChange calls are made
\* and however many of them are handled between two renders; a list of
\* exactly 2 entries is never made shorter.
C20_AtLeastTwoOptions ==
    [][ /\ Len(form'.options) >= 2
        /\ Len(form'.options) < Len(form.options) => Len(form.options) > 2
      ]_vars

\* C21: in AdminPage a poll whose handleDelete has completed with a
\* successful adminDeletePoll is not in the displayed list, then and ever
\* after, also when deletions of different polls are in flight together;
\* and the Delete button of a displayed poll is disabled for as long as a
\* deletion of that poll is in flight.
C21_DeletedAbsentButtonDisabled ==
    /\ \A p \in form.deleted : p \notin DisplayedPolls
    /\ \A c \in 1..Len(form.inFlight) :
           form.inFlight[c].pollId \in DisplayedPolls =>
               DeleteDisabled(form.inFlight[c].pollId)

\* The stored poll the call names belongs to the caller.
OwnsNamedPoll(call, table) ==
    \E p \in table : p.id = call.pollId /\ p.user_id = Caller(call).id

\* The call is a deletePoll, or an updatePoll with a valid form, made by an
\* authenticated caller, and the backend reported no error for its statement.
OwnerMutationAnswered(call) ==
    /\ call.op \in {"deletePoll", "updatePoll"}
    /\ Authenticated(call)
    /\ ~call.thrown
    /\ call.validation.errors = <<>>
    /\ call.reported = Null

\* C22: a deletePoll, or an updatePoll with a valid form, by an authenticated
\* caller returns error null and performs the same steps (deletePoll ending
\* with the cache invalidation, updatePoll with its update) whether or not
\* the poll exists and belongs to the caller; when it does not, the polls
\* table is left as it was, so the result is that of a mutation that
\* affected a row although none was affected.
C22_NoRowAffectedLooksSuccessful ==
    [][ OwnerMutationAnswered(last') =>
          /\ last'.error = Null
          /\ last'.op = "deletePoll" =>
                 last'.steps = <<"getUser", "delete", "revalidatePath">>
          /\ last'.op = "updatePoll" =>
                 last'.steps = <<"validate", "sanitize", "getUser", "update">>
          /\ ~OwnsNamedPoll(last', polls) => polls' = polls
      ]_vars

\* Bob has deleted, without error, a poll that is stored and belongs to
\* somebody else: it is still stored.
C22_Witness ==
    /\ OwnerMutationAnswered(last)
    /\ last.op = "deletePoll"
    /\ last.error = Null
    /\ ~OwnsNamedPoll(last, polls)
    /\ \E p \in polls : p.id = last.pollId

\* A string contains a tag: a "<" followed somewhere later by a ">".
ContainsTag(s) ==
    \E i \in 1..Len(s), j \in 1..Len(s) : i < j /\ s[i] = "<" /\ s[j] = ">"

\* C23: the output of sanitizeString contains no tag, whatever the input:
\* the removal of scripts and tags does not join what remains into a tag.
\* So no stored poll has a tag in its question or in one of its options.
C23_OutputTagFree ==
    /\ san.done => ~ContainsTag(san.output)
    /\ \A p \in polls :
           /\ ~ContainsTag(p.question)
           /\ \A i \in 1..Len(p.options) : ~ContainsTag(p.options[i])

\* sanitizeString has removed a tag from an input and has left an angle
\* bracket of the input in its output.
C23_Witness ==
    /\ san.done
    /\ ContainsTag(san.input)
    /\ \E i \in 1..Len(san.output) : san.output[i] \in {"<", ">"}

\* The entries of a form's options that are not the empty string, in order.
RECURSIVE RemainingEntries(_)
RemainingEntries(entries) ==
    IF entries = <<>> THEN <<>>
    ELSE IF Head(entries) = <<>> THEN RemainingEntries(Tail(entries))
    ELSE <<Head(entries)>> \o RemainingEntries(Tail(entries))

\* A string of one or more white space characters.
WhitespaceOnly(s) == s # <<>> /\ \A i \in 1..Len(s) : IsWhitespace(s[i])

\* C24: createPoll and updatePoll validate the form's option entries without
\* the empty strings: the count messages depend on the number of remaining
\* entries (fewer than 2, more than 10), "Option N cannot be empty" is among
\* the errors exactly when the N-th remaining entry is white space only, and
\* a poll written by the call has as options the remaining entries, each
\* sanitized, in their submitted order.
C24_EmptyEntriesDiscarded ==
    [][ (ValidatedCall(last') /\ ~last'.thrown) =>
          LET remaining == RemainingEntries(last'.formData.options)
              errors == Range(last'.validation.errors)
          IN  /\ last'.validation.options = remaining
              /\ "At least 2 options are required" \in errors <=> Len(remaining) < 2
              /\ "Maximum 10 options allowed" \in errors <=> Len(remaining) > 10
              /\ \A n \in 1..(Len(last'.formData.options) + 1) :
                     OptionMessage(n, " cannot be empty") \in errors
                         <=> (n <= Len(remaining) /\ WhitespaceOnly(remaining[n]))
              /\ \A p \in polls' \ polls :
                     /\ Len(p.options) = Len(remaining)
                     /\ \A i \in 1..Len(remaining) :
                            p.options[i] = sanitizeString(remaining[i])
      ]_vars

\* A form whose first option input is empty and whose second holds a blank
\* has been refused with "Option 1 cannot be empty" as the only option
\* error.
C24_Witness ==
    /\ ValidatedCall(last)
    /\ Len(last.formData.options) >= 3
    /\ last.formData.options[1] = <<>>
    /\ WhitespaceOnly(last.formData.options[2])
    /\ last.error = Some("Option 1 cannot be empty")

\* A submission of the form gets its handler's result in this step.
SubmissionCompletes == Len(form'.pending) < Len(form.pending)

\* C25: in both forms, after every step, the error is null or success is
\* false, whatever submissions were made and also when one is started while
\* an earlier one awaits its handler; and a redirect is pending only if the
\* most recently completed submission succeeded: a submission completing
\* with an error leaves no redirect pending, and a redirect is scheduled
\* only by a submission completing without error.
C25_ErrorAndSuccessExclusive ==
    [][ /\ form'.error = Null \/ ~form'.success
        /\ (SubmissionCompletes /\ form'.outcome[1] # Null) => form'.timers = <<>>
        /\ Len(form'.timers) > Len(form.timers) =>
               SubmissionCompletes /\ form'.outcome[1] = Null
      ]_vars

=============================================================================
